---------------------------- MODULE Spec2Model ----------------------------
(***************************************************************************)
(* Model of Helvum's graph canvas: the GraphView widget                    *)
(* (src/src/view/graph_view.rs) and the Application glue that feeds it     *)
(* (src/src/application.rs).                                               *)
(*                                                                         *)
(* Numbers.  The code computes in f64 (zoom factor, adjustments) and f32   *)
(* (canvas points).  The model computes the same expressions exactly, on   *)
(* integer grids chosen so that every division the code performs is exact  *)
(* for the inputs the model draws:                                         *)
(*   - a zoom factor is held in units of 1/ZU    (1.0 is ZU),              *)
(*   - a canvas coordinate in units of 1/PU      (20.0 is 20 * PU),        *)
(*   - an adjustment value in units of 1/AU pixel, AU = ZU * PU,           *)
(*   - a screen coordinate in whole pixels.                                *)
(* Zoom factors stay on ZoomGrid, the divisors of AU inside                *)
(* [ZOOM_MIN, ZOOM_MAX]; floating-point rounding is not modelled.          *)
(***************************************************************************)
EXTENDS Integers, Sequences, FiniteSets, TLC

\* ------------------------------------------------------------------------
\* Numeric grids
\* ------------------------------------------------------------------------
ZU == 10
PU == 12
AU == ZU * PU

\* ------------------------------------------------------------------------
\* Program constants
\* ------------------------------------------------------------------------
CANVAS_SIZE == 5000
ZOOM_MIN == 3
ZOOM_MAX == 40
DEFAULT_ZOOM == 10
COLUMN_OUTPUT_X == 20
COLUMN_INPUT_X == 820
COLUMN_NONE_X == 420
COLUMN_TOLERANCE == 50
COLUMN_TOP_Y == 20
COLUMN_GAP_Y == 120
VIEW_WIDTH == 1280
VIEW_HEIGHT == 720

\* ------------------------------------------------------------------------
\* Bounds of the model
\* ------------------------------------------------------------------------
MaxDeltas == 3
MaxInputs == 3

\* ------------------------------------------------------------------------
\* Input sets
\* ------------------------------------------------------------------------
NodeIds == {1, 2}
PortIds == {10, 20}
LinkIds == {100, 101}
NodeTypes == {"None", "Output", "Input"}

\* PipewireLink values the protocol thread may announce.
PipewireLinks ==
    { [node_from |-> 1, port_from |-> 10, node_to |-> 2, port_to |-> 20],
      [node_from |-> 1, port_from |-> 10, node_to |-> 1, port_to |-> 20] }

\* PipewireMessage, the delta events of the protocol thread.
PipewireMessage ==
    [type : {"NodeAdded"}, id : NodeIds, node_type : NodeTypes]
    \cup [type : {"NodeRemoved"}, id : NodeIds]
    \cup [type : {"PortAdded"}, id : PortIds, node_id : NodeIds]
    \cup [type : {"PortRemoved"}, id : PortIds, node_id : NodeIds]
    \cup [type : {"LinkAdded"}, id : LinkIds, link : PipewireLinks, active : BOOLEAN]
    \cup [type : {"LinkStateChanged"}, id : LinkIds, active : BOOLEAN]
    \cup [type : {"LinkRemoved"}, id : LinkIds]

NoMessage == [type |-> "none"]

\* ------------------------------------------------------------------------
\* Helpers
\* ------------------------------------------------------------------------
Min(a, b) == IF a < b THEN a ELSE b
Max(a, b) == IF a > b THEN a ELSE b
Abs(a) == IF a < 0 THEN -a ELSE a

\* f64::clamp / f32::clamp for min <= max.
Clamp(v, lo, hi) == IF v < lo THEN lo ELSE IF v > hi THEN hi ELSE v

\* HashMap::insert: the entry for k is set to v, replacing any old one.
MapInsert(m, k, v) == [x \in DOMAIN m \cup {k} |-> IF x = k THEN v ELSE m[x]]

\* HashMap::remove.
MapRemove(m, k) == [x \in DOMAIN m \ {k} |-> m[x]]

\* PartialOrd of the tuple (x, y): lexicographic.
TupleLe(p, q) == p[1] < q[1] \/ (p[1] = q[1] /\ p[2] <= q[2])

\* Iterator::max_by over a non-empty set of (x, y) tuples.
MaxBy(S) == CHOOSE p \in S : \A q \in S : TupleLe(q, p)

\* ------------------------------------------------------------------------
\* The graph model: nodes, the GraphView's child widgets, links.
\*
\* A Node widget is identified by <<pipewire id, serial>>: serial counts the
\* Node::new calls made for that id.  g.children maps every Node widget
\* parented to the GraphView to its ports and its allocated size; a widget
\* is alive exactly while it is parented (the parent holds the reference
\* that remains once the node table drops its own).
\* ------------------------------------------------------------------------
EmptyGraph ==
    [ nodes    |-> <<>>,
      children |-> <<>>,
      links    |-> <<>>,
      serial   |-> [id \in NodeIds |-> 0] ]

\* Node::new(name, id): a widget with no ports, not yet allocated.
NodeNew == [ports |-> {}, width |-> 0, height |-> 0]

\* Node::pipewire_id.
pipewire_id(widget) == widget[1]

\* GraphView::node_position, by pipewire id.
node_position(g, id) ==
    IF id \in DOMAIN g.nodes THEN g.nodes[id].point ELSE <<>>

\* A column choice with the two typed columns exchanged.
column_x_swapped(node_type) ==
    CASE node_type = "Output" -> COLUMN_INPUT_X * PU
      [] node_type = "Input"  -> COLUMN_OUTPUT_X * PU
      [] OTHER                -> COLUMN_NONE_X * PU

\* The x of the column a node type is placed in.
column_x(node_type) ==
    CASE node_type = "Output" -> COLUMN_OUTPUT_X * PU
      [] node_type = "Input"  -> COLUMN_INPUT_X * PU
      [] OTHER                -> COLUMN_NONE_X * PU

\* The y the placement scan of add_node yields for column x.
column_y(g, x) ==
    LET column == { g.nodes[n].point : n \in
                      { m \in DOMAIN g.nodes :
                          Abs(x - g.nodes[m].point[1]) < COLUMN_TOLERANCE * PU } }
    IN  IF column = {} THEN COLUMN_TOP_Y * PU
        ELSE MaxBy(column)[2] + COLUMN_GAP_Y * PU

\* An add_node that puts the new node at the top of its column and moves
\* the nodes already in the column down by one gap.
add_node_restacking(g, id, node_type) ==
    LET widget == <<id, g.serial[id] + 1>>
        x == column_x(node_type)
        pushed == [n \in DOMAIN g.nodes |->
                     IF Abs(x - g.nodes[n].point[1]) < COLUMN_TOLERANCE * PU
                     THEN [g.nodes[n] EXCEPT !.point[2] = @ + COLUMN_GAP_Y * PU]
                     ELSE g.nodes[n]]
    IN  [g EXCEPT
           !.serial[id] = @ + 1,
           !.children = MapInsert(@, widget, NodeNew),
           !.nodes = MapInsert(pushed, id,
                               [node |-> widget, point |-> <<x, COLUMN_TOP_Y * PU>>])]

\* GraphView::add_node.
add_node(g, id, node_type) ==
    LET widget == <<id, g.serial[id] + 1>>
        x == column_x(node_type)
        y == column_y(g, x)
    IN  [g EXCEPT
           !.serial[id] = @ + 1,
           !.children = MapInsert(@, widget, NodeNew),
           !.nodes = MapInsert(@, id, [node |-> widget, point |-> <<x, y>>])]

\* remove_node that leaves the node in place.
remove_node_keeps(g, id) == g

\* GraphView::remove_node.
remove_node(g, id) ==
    IF id \in DOMAIN g.nodes
    THEN [g EXCEPT !.nodes = MapRemove(@, id),
                   !.children = MapRemove(@, g.nodes[id].node)]
    ELSE g

\* Node::add_port / Node::get_port / Node::remove_port on a widget record.
node_add_port(n, port_id) == [n EXCEPT !.ports = @ \cup {port_id}]
node_get_port(n, port_id) == port_id \in n.ports
node_remove_port(n, port_id) == [n EXCEPT !.ports = @ \ {port_id}]

\* add_port that makes up a node for a port whose node is absent.
add_port_creates_node(g, node_id, port_id) ==
    LET h == IF node_id \in DOMAIN g.nodes THEN g ELSE add_node(g, node_id, "None")
    IN  [h EXCEPT !.children[h.nodes[node_id].node] = node_add_port(@, port_id)]

\* GraphView::add_port.
add_port(g, node_id, port_id) ==
    IF node_id \in DOMAIN g.nodes
    THEN [g EXCEPT !.children[g.nodes[node_id].node] = node_add_port(@, port_id)]
    ELSE g

\* A remove_port that takes the port off whichever node holds it.
remove_port_anywhere(g, id, node_id) ==
    [g EXCEPT !.children =
        [w \in DOMAIN g.children |-> node_remove_port(g.children[w], id)]]

\* GraphView::remove_port.
remove_port(g, id, node_id) ==
    IF node_id \in DOMAIN g.nodes
    THEN [g EXCEPT !.children[g.nodes[node_id].node] = node_remove_port(@, id)]
    ELSE g

\* add_link that stores a link only between nodes that exist.
add_link_checked(g, link_id, link, active) ==
    IF link.node_from \in DOMAIN g.nodes /\ link.node_to \in DOMAIN g.nodes
    THEN [g EXCEPT !.links = MapInsert(@, link_id, [link |-> link, active |-> active])]
    ELSE g

\* GraphView::add_link.
add_link(g, link_id, link, active) ==
    [g EXCEPT !.links = MapInsert(@, link_id, [link |-> link, active |-> active])]

\* GraphView::set_link_state.
set_link_state(g, link_id, active) ==
    IF link_id \in DOMAIN g.links
    THEN [g EXCEPT !.links[link_id].active = active]
    ELSE g

\* GraphView::remove_link.
remove_link(g, id) == [g EXCEPT !.links = MapRemove(@, id)]

\* The handler attached to the receiver in Application::new.
apply_message(g, msg) ==
    CASE msg.type = "NodeAdded"        -> add_node(g, msg.id, msg.node_type)
      [] msg.type = "PortAdded"        -> add_port(g, msg.node_id, msg.id)
      [] msg.type = "LinkAdded"        -> add_link(g, msg.id, msg.link, msg.active)
      [] msg.type = "LinkStateChanged" -> set_link_state(g, msg.id, msg.active)
      [] msg.type = "NodeRemoved"      -> remove_node(g, msg.id)
      [] msg.type = "PortRemoved"      -> remove_port(g, msg.id, msg.node_id)
      [] msg.type = "LinkRemoved"      -> remove_link(g, msg.id)

\* The graph after the handler has been applied to each message of a
\* sequence in turn.
RECURSIVE replay(_, _)
replay(g, msgs) ==
    IF msgs = <<>> THEN g
    ELSE replay(apply_message(g, Head(msgs)), Tail(msgs))

\* ------------------------------------------------------------------------
\* The view: zoom factor, scroll adjustments, transforms.
\*
\* v = [zoom_factor, hadjustment, vadjustment]; an adjustment is a
\* gtk::Adjustment [value, lower, upper, page_size] in units of 1/AU pixel.
\* ------------------------------------------------------------------------
ZoomGrid == { z \in ZOOM_MIN..ZOOM_MAX : AU % z = 0 }

\* gtk::Adjustment::set_value: the value is clamped to [lower, upper - page_size].
adjustment_set_value(adj, value) ==
    [adj EXCEPT !.value =
        Clamp(value, adj.lower, Max(adj.lower, adj.upper - adj.page_size))]

\* gtk::Adjustment::configure: new bounds, then the value is clamped to them.
adjustment_configure(adj, value, lower, upper, page_size) ==
    [ value     |-> Max(Min(value, upper - page_size), lower),
      lower     |-> lower,
      upper     |-> upper,
      page_size |-> page_size ]

\* imp::GraphView::set_adjustment_values, for a widget `size` pixels long.
set_adjustment_values(adj, size, zoom_factor) ==
    adjustment_configure(adj,
        adj.value,
        -((CANVAS_SIZE \div 2) * PU * zoom_factor),
        (CANVAS_SIZE \div 2) * PU * zoom_factor,
        size * PU * zoom_factor)

\* screen_space_to_canvas_space_transform applied to one screen coordinate
\* (pixels): undo the translation by -adjustment, then undo the scale.
screen_to_canvas(screen, adj_value, zoom_factor) ==
    (AU * screen + adj_value) \div zoom_factor

\* A canvas-to-screen transform that translates before it scales.
canvas_to_screen_translate_first(canvas, adj_value, zoom_factor) ==
    ((canvas * ZU - adj_value) * zoom_factor) \div ZU

\* canvas_space_to_screen_space_transform applied to one canvas coordinate;
\* the result is in units of 1/AU pixel.
canvas_to_screen(canvas, adj_value, zoom_factor) ==
    canvas * zoom_factor - adj_value

\* set_zoom_factor without the clamp of the requested zoom factor.
set_zoom_factor_unclamped(v, zoom_factor, anchor) ==
    LET new_zoom == zoom_factor
        old_zoom == v.zoom_factor
        x_total == (AU * anchor[1] + v.hadjustment.value) \div old_zoom
        y_total == (AU * anchor[2] + v.vadjustment.value) \div old_zoom
        new_hadjustment == x_total * new_zoom - AU * anchor[1]
        new_vadjustment == y_total * new_zoom - AU * anchor[2]
    IN  [ zoom_factor |-> new_zoom,
          hadjustment |-> adjustment_set_value(v.hadjustment, new_hadjustment),
          vadjustment |-> adjustment_set_value(v.vadjustment, new_vadjustment) ]

\* GraphView::set_zoom_factor with anchor Some(<<x, y>>) in screen pixels.
set_zoom_factor(v, zoom_factor, anchor) ==
    LET new_zoom == Clamp(zoom_factor, ZOOM_MIN, ZOOM_MAX)
        old_zoom == v.zoom_factor
        x_total == (AU * anchor[1] + v.hadjustment.value) \div old_zoom
        y_total == (AU * anchor[2] + v.vadjustment.value) \div old_zoom
        new_hadjustment == x_total * new_zoom - AU * anchor[1]
        new_vadjustment == y_total * new_zoom - AU * anchor[2]
    IN  [ zoom_factor |-> new_zoom,
          hadjustment |-> adjustment_set_value(v.hadjustment, new_hadjustment),
          vadjustment |-> adjustment_set_value(v.vadjustment, new_vadjustment) ]

\* An anchor at the widget's origin instead of its middle.
default_anchor_origin == <<0, 0>>

\* The anchor set_zoom_factor uses for None: the middle of the allocation.
default_anchor == <<VIEW_WIDTH \div 2, VIEW_HEIGHT \div 2>>

\* The adjustments a ScrolledWindow hands to its child: all zero.
NewAdjustment == [value |-> 0, lower |-> 0, upper |-> 0, page_size |-> 0]

\* ------------------------------------------------------------------------
\* Layout and drawing
\* ------------------------------------------------------------------------
\* Option<T>.
None == [some |-> FALSE]
Some(x) == [some |-> TRUE, value |-> x]

\* ceil(a / b) for a >= 0, b > 0.
CeilDiv(a, b) == (a + b - 1) \div b

\* Node::preferred_size: the natural size (pixels) of a Node widget, which
\* grows by one row per port.
NATURAL_WIDTH == 240
NATURAL_HEIGHT == 60
NATURAL_PORT_HEIGHT == 24
preferred_size(n) ==
    <<NATURAL_WIDTH, NATURAL_HEIGHT + NATURAL_PORT_HEIGHT * Cardinality(n.ports)>>

\* imp::GraphView::size_allocate, the loop over the node table: every Node
\* of the table is allocated ceil(natural size / zoom factor).
allocate_nodes(g, zoom_factor) ==
    [g EXCEPT !.children =
        [w \in DOMAIN g.children |->
            IF \E id \in DOMAIN g.nodes : g.nodes[id].node = w
            THEN [g.children[w] EXCEPT
                    !.width  = CeilDiv(preferred_size(g.children[w])[1] * ZU, zoom_factor),
                    !.height = CeilDiv(preferred_size(g.children[w])[2] * ZU, zoom_factor)]
            ELSE g.children[w]]]

\* A move_node that clamps to the canvas and then takes off the size.
move_node_clamp_then_shrink(g, widget, point) ==
    [g EXCEPT !.nodes[pipewire_id(widget)].point =
        << Clamp(point[1], -((CANVAS_SIZE \div 2) * PU), (CANVAS_SIZE \div 2) * PU)
             - g.children[widget].width * PU,
           Clamp(point[2], -((CANVAS_SIZE \div 2) * PU), (CANVAS_SIZE \div 2) * PU)
             - g.children[widget].height * PU >>]

\* GraphView::move_node, for a widget whose id is in the node table: the
\* point is clamped to the canvas less the widget's allocated size.
move_node(g, widget, point) ==
    [g EXCEPT !.nodes[pipewire_id(widget)].point =
        << Clamp(point[1], -((CANVAS_SIZE \div 2) * PU),
                 (CANVAS_SIZE \div 2) * PU - g.children[widget].width * PU),
           Clamp(point[2], -((CANVAS_SIZE \div 2) * PU),
                 (CANVAS_SIZE \div 2) * PU - g.children[widget].height * PU) >>]

\* get_link_coordinates that resolves the origin port only.
get_link_coordinates_origin_only(g, link) ==
    /\ link.node_from \in DOMAIN g.nodes
    /\ node_get_port(g.children[g.nodes[link.node_from].node], link.port_from)

\* imp::GraphView::get_link_coordinates(link).is_some(): both ports are
\* found through the node table.  (The coordinates themselves come from the
\* port widgets' geometry and are not modelled.)
get_link_coordinates(g, link) ==
    /\ link.node_from \in DOMAIN g.nodes
    /\ node_get_port(g.children[g.nodes[link.node_from].node], link.port_from)
    /\ link.node_to \in DOMAIN g.nodes
    /\ node_get_port(g.children[g.nodes[link.node_to].node], link.port_to)

\* The dash pattern and line width snapshot_links strokes links with.
DASH_ON == 10
DASH_OFF == 5
LINE_WIDTH == 2

\* The cairo context snapshot_links draws the links with: the line width is
\* set once, to 2.0 * zoom factor (in units of 1/ZU pixel), and a new
\* context has no dash.
link_cr(zoom_factor) ==
    [ dash       |-> <<>>,
      line_width |-> LINE_WIDTH * zoom_factor ]

\* A loop body that sets the dash for inactive links only.
set_dash_inactive_only(cr, active) ==
    IF active THEN cr ELSE [cr EXCEPT !.dash = <<DASH_ON, DASH_OFF>>]

\* The set_dash call of the loop body: no dash for an active link, the
\* pattern [10, 5] (pixels) for an inactive one.  The setting stays in the
\* context until the next call.
set_dash(cr, active) ==
    [cr EXCEPT !.dash = IF active THEN <<>> ELSE <<DASH_ON, DASH_OFF>>]

\* The orders in which a HashMap may yield the keys S.
Orders(S) ==
    { o \in [1..Cardinality(S) -> S] :
        \A i, j \in 1..Cardinality(S) : o[i] = o[j] => i = j }

\* The loop of snapshot_links over the links in the given order, with the
\* context cr: each link whose coordinates are found is stroked with the
\* context as it is after the link's set_dash.
RECURSIVE stroke_links(_, _, _, _)
stroke_links(g, order, cr, strokes) ==
    IF order = <<>> THEN strokes
    ELSE LET l == Head(order)
         IN  IF get_link_coordinates(g, g.links[l].link)
             THEN stroke_links(g, Tail(order), set_dash(cr, g.links[l].active),
                               MapInsert(strokes, l, set_dash(cr, g.links[l].active)))
             ELSE stroke_links(g, Tail(order), cr, strokes)

\* imp::GraphView::snapshot_links: the links stroked in one frame, each
\* with its stroke, when the link table yields its entries in `order`.
snapshot_links(g, zoom_factor, order) ==
    stroke_links(g, order, link_cr(zoom_factor), <<>>)

\* ------------------------------------------------------------------------
\* State
\* ------------------------------------------------------------------------
VARIABLES
    nodes,      \* imp::GraphView::nodes: id -> [node, point]
    children,   \* Node widgets parented to the GraphView -> [ports, width, height]
    links,      \* imp::GraphView::links: id -> [link, active]
    serial,     \* id -> number of Node widgets created for it so far
    zoom_factor,                \* imp::GraphView::zoom_factor
    hadjustment,                \* imp::GraphView::hadjustment
    vadjustment,                \* imp::GraphView::vadjustment
    dragged_node,               \* imp::GraphView::dragged_node: Option<DragState>
    zoom_gesture_initial_zoom,  \* imp::GraphView::zoom_gesture_initial_zoom
    zoom_gesture_anchor,        \* imp::GraphView::zoom_gesture_anchor
    drag_start,     \* GestureDrag::start_point: Some while a drag is in progress
    zoom_gesture,   \* TRUE while the GestureZoom is in progress
    frame,          \* the links stroked by the last snapshot, with their strokes
    pw_sender,      \* the GtkMessages sent to the protocol thread
    panicked,       \* a handler has panicked
    pending,        \* delta events the protocol thread has yet to send
    channel,        \* delta events sent and not yet dispatched, oldest first
    sent,           \* every delta event sent over the channel so far, in order
    applied,        \* the event handled last (delta, user input or redraw)
    deltas,         \* number of delta events applied so far
    inputs          \* number of user input events handled so far

graph_vars == <<nodes, children, links, serial>>
view_vars == <<zoom_factor, hadjustment, vadjustment>>
drag_vars == <<dragged_node, drag_start>>
pinch_vars == <<zoom_gesture_initial_zoom, zoom_gesture_anchor, zoom_gesture>>
stream_vars == <<pending, channel, sent>>
vars == <<graph_vars, view_vars, drag_vars, pinch_vars, frame, pw_sender,
          panicked, pending, channel, sent, applied, deltas, inputs>>

\* The graph model and the view, each as one value.
Graph == [nodes |-> nodes, children |-> children, links |-> links, serial |-> serial]
View == [zoom_factor |-> zoom_factor, hadjustment |-> hadjustment,
         vadjustment |-> vadjustment]

SetGraph(g) ==
    /\ nodes' = g.nodes
    /\ children' = g.children
    /\ links' = g.links
    /\ serial' = g.serial

SetView(v) ==
    /\ zoom_factor' = v.zoom_factor
    /\ hadjustment' = v.hadjustment
    /\ vadjustment' = v.vadjustment

\* The window has been shown and laid out once: the zoom factor has its
\* construct-time default and size_allocate has configured the adjustments
\* the ScrolledWindow supplied.  The graph model is g.
InitWith(g) ==
    /\ nodes = g.nodes
    /\ children = g.children
    /\ links = g.links
    /\ serial = g.serial
    /\ zoom_factor = DEFAULT_ZOOM
    /\ hadjustment = set_adjustment_values(NewAdjustment, VIEW_WIDTH, DEFAULT_ZOOM)
    /\ vadjustment = set_adjustment_values(NewAdjustment, VIEW_HEIGHT, DEFAULT_ZOOM)
    /\ dragged_node = None
    /\ zoom_gesture_initial_zoom = None
    /\ zoom_gesture_anchor = None
    /\ drag_start = None
    /\ zoom_gesture = FALSE
    /\ frame = <<>>
    /\ pw_sender = <<>>
    /\ panicked = FALSE
    /\ channel = <<>>
    /\ sent = <<>>
    /\ applied = NoMessage
    /\ deltas = 0
    /\ inputs = 0

Init == InitWith(EmptyGraph) /\ pending = {}

\* ------------------------------------------------------------------------
\* Actions
\* ------------------------------------------------------------------------
\* One message of the protocol thread is dispatched on the main loop.
Dispatch(msg) ==
    /\ ~panicked
    /\ SetGraph(apply_message(Graph, msg))
    /\ applied' = msg
    /\ deltas' = deltas + 1
    /\ UNCHANGED <<view_vars, drag_vars, pinch_vars, frame, pw_sender, panicked, inputs>>

\* A message of an arbitrary delta stream arrives.
Receive(msg) ==
    /\ deltas < MaxDeltas
    /\ Dispatch(msg)
    /\ UNCHANGED stream_vars

\* A message of the announced stream arrives.  The protocol thread sends a
\* port only after the node that owns it.
CanArrive(msg, P) ==
    /\ msg \in P
    /\ msg.type = "PortAdded" =>
         ~ \E m \in P : m.type = "NodeAdded" /\ m.id = msg.node_id

Arrive(msg) ==
    /\ CanArrive(msg, pending)
    /\ Dispatch(msg)
    /\ pending' = pending \ {msg}
    /\ UNCHANGED <<channel, sent>>

\* The protocol thread sends a message over the channel.
Send(msg) ==
    /\ ~panicked
    /\ Len(sent) < MaxDeltas
    /\ channel' = Append(channel, msg)
    /\ sent' = Append(sent, msg)
    /\ UNCHANGED <<graph_vars, view_vars, drag_vars, pinch_vars, frame, pw_sender,
                   panicked, pending, applied, deltas, inputs>>

\* A channel that hands over its newest message first.
channel_recv_newest(ch) ==
    [msg |-> ch[Len(ch)], rest |-> SubSeq(ch, 1, Len(ch) - 1)]

\* What the main loop takes from a non-empty channel for one call of the
\* attached handler: the oldest message; the others stay queued.
channel_recv(ch) == [msg |-> Head(ch), rest |-> Tail(ch)]

\* The main loop dispatches the channel's source: the attached handler is
\* called with one message and returns Continue(true).
Deliver ==
    /\ channel # <<>>
    /\ Dispatch(channel_recv(channel).msg)
    /\ channel' = channel_recv(channel).rest
    /\ UNCHANGED <<pending, sent>>

\* imp::GraphView::size_allocate.
SizeAllocate ==
    /\ ~panicked
    /\ SetGraph(allocate_nodes(Graph, zoom_factor))
    /\ hadjustment' = set_adjustment_values(hadjustment, VIEW_WIDTH, zoom_factor)
    /\ vadjustment' = set_adjustment_values(vadjustment, VIEW_HEIGHT, zoom_factor)
    /\ UNCHANGED <<zoom_factor, drag_vars, pinch_vars, frame, pw_sender, panicked,
                   stream_vars, applied, deltas, inputs>>

\* imp::GraphView::snapshot.
Snapshot ==
    /\ ~panicked
    /\ \E order \in Orders(DOMAIN links) :
          frame' = snapshot_links(Graph, zoom_factor, order)
    /\ applied' = [type |-> "Snapshot"]
    /\ UNCHANGED <<graph_vars, view_vars, drag_vars, pinch_vars, pw_sender, panicked,
                   stream_vars, deltas, inputs>>

\* A user input event is delivered to its handler.
Input(event) ==
    /\ ~panicked
    /\ inputs < MaxInputs
    /\ inputs' = inputs + 1
    /\ applied' = event
    /\ UNCHANGED <<stream_vars, deltas>>

\* What pick() can return at drag_begin (GTK's hit test): the GraphView, or
\* a child Node widget that has been allocated an area, or a Port of one.
Pickable == { w \in DOMAIN children : children[w].width > 0 }

PickTargets ==
    { [kind |-> "view"] }
    \cup { [kind |-> "port"] : w \in { c \in Pickable : children[c].ports # {} } }
    \cup { [kind |-> "node", node |-> w] : w \in Pickable }

\* A strong reference in place of the weak one: it always upgrades.
upgrade_always(widget) == TRUE

\* WeakRef::upgrade(..).is_some(): the widget is still alive.
upgrade(widget) == widget \in DOMAIN children

\* A drag_begin that leaves the drag state alone when a port is hit.
drag_begin_skips_port(target, x, y) ==
    IF target.kind = "node" /\ pipewire_id(target.node) \in DOMAIN nodes
    THEN LET canvas_node_pos == node_position(Graph, pipewire_id(target.node))
         IN  Some([ node   |-> target.node,
                    offset |-> << screen_to_canvas(x, hadjustment.value, zoom_factor)
                                    - canvas_node_pos[1],
                                  screen_to_canvas(y, vadjustment.value, zoom_factor)
                                    - canvas_node_pos[2] >> ])
    ELSE IF target.kind = "view" THEN None
    ELSE dragged_node

\* What drag_begin leaves in dragged_node for the widget pick() returned.
drag_begin(target, x, y) ==
    IF target.kind = "port" THEN None
    ELSE IF target.kind = "node"
    THEN IF pipewire_id(target.node) \in DOMAIN nodes
         THEN LET canvas_node_pos == node_position(Graph, pipewire_id(target.node))
                  canvas_cursor_pos ==
                      << screen_to_canvas(x, hadjustment.value, zoom_factor),
                         screen_to_canvas(y, vadjustment.value, zoom_factor) >>
              IN  Some([ node   |-> target.node,
                         offset |-> << canvas_cursor_pos[1] - canvas_node_pos[1],
                                       canvas_cursor_pos[2] - canvas_node_pos[2] >> ])
         ELSE dragged_node
    ELSE None

\* drag_begin of setup_node_dragging.
DragBegin(target, x, y) ==
    /\ Input([type |-> "DragBegin", target |-> target, x |-> x, y |-> y])
    /\ drag_start = None
    /\ drag_start' = Some(<<x, y>>)
    /\ dragged_node' = drag_begin(target, x, y)
    /\ UNCHANGED <<graph_vars, view_vars, pinch_vars, frame, pw_sender, panicked>>

\* A drag target that forgets the offset of the grab within the node.
drag_target_no_offset(state, start, x, y) ==
    << screen_to_canvas(start[1] + x, hadjustment.value, zoom_factor),
       screen_to_canvas(start[2] + y, vadjustment.value, zoom_factor) >>

\* The point drag_update asks move_node for.
drag_target(state, start, x, y) ==
    << screen_to_canvas(start[1] + x, hadjustment.value, zoom_factor) - state.offset[1],
       screen_to_canvas(start[2] + y, vadjustment.value, zoom_factor) - state.offset[2] >>

\* drag_update of setup_node_dragging, x and y the offset from the start point.
DragUpdate(x, y) ==
    /\ Input([type |-> "DragUpdate", x |-> x, y |-> y])
    /\ drag_start # None
    /\ IF dragged_node = None
       THEN UNCHANGED <<graph_vars, panicked>>
       ELSE IF ~upgrade(dragged_node.value.node)
       THEN UNCHANGED <<graph_vars, panicked>>
       ELSE IF pipewire_id(dragged_node.value.node) \notin DOMAIN nodes
       THEN /\ panicked' = TRUE
            /\ UNCHANGED graph_vars
       ELSE /\ SetGraph(move_node(Graph, dragged_node.value.node,
                            drag_target(dragged_node.value, drag_start.value, x, y)))
            /\ UNCHANGED panicked
    /\ UNCHANGED <<view_vars, drag_vars, pinch_vars, frame, pw_sender>>

\* The drag gesture ends; no handler is connected to drag-end.
DragEnd ==
    /\ Input([type |-> "DragEnd"])
    /\ drag_start # None
    /\ drag_start' = None
    /\ UNCHANGED <<graph_vars, view_vars, dragged_node, pinch_vars, frame, pw_sender,
                   panicked>>

\* The "set-zoom" action of the window (Application::activate).
SetZoomAction(zoom) ==
    /\ Input([type |-> "SetZoom", zoom |-> zoom])
    /\ Clamp(zoom, ZOOM_MIN, ZOOM_MAX) \in ZoomGrid
    /\ SetView(set_zoom_factor(View, zoom, default_anchor))
    /\ UNCHANGED <<graph_vars, drag_vars, pinch_vars, frame, pw_sender, panicked>>

\* A scroll handler that inhibits every scroll event.
scroll_inhibit_always(control_held) == TRUE

\* What the scroll handler of setup_scroll_zooming returns: Inhibit(true)
\* with the control key held, Inhibit(false) without.
scroll_inhibit(control_held) == control_held

\* The scroll handler of setup_scroll_zooming with the control key held and
\* the pointer at `pointer` (which the handler does not read): the zoom
\* factor changes by 0.1 * -delta_y, and 0.1 is one unit of 1/ZU.
ScrollZoom(delta_y, pointer) ==
    /\ Input([type |-> "ScrollZoom", delta_y |-> delta_y, pointer |-> pointer,
              inhibit |-> scroll_inhibit(TRUE)])
    /\ Clamp(zoom_factor - delta_y, ZOOM_MIN, ZOOM_MAX) \in ZoomGrid
    /\ SetView(set_zoom_factor(View, zoom_factor - delta_y, default_anchor))
    /\ UNCHANGED <<graph_vars, drag_vars, pinch_vars, frame, pw_sender, panicked>>

\* The scroll handler of setup_scroll_zooming without the control key: it
\* changes nothing, and unless it inhibits the event the ScrolledWindow
\* above the view scrolls vertically by `amount` pixels.
Scroll(delta_y, amount) ==
    /\ Input([type |-> "Scroll", delta_y |-> delta_y,
              inhibit |-> scroll_inhibit(FALSE)])
    /\ vadjustment' = IF scroll_inhibit(FALSE) THEN vadjustment
                      ELSE adjustment_set_value(vadjustment,
                                                vadjustment.value + AU * amount)
    /\ UNCHANGED <<graph_vars, zoom_factor, hadjustment, drag_vars, pinch_vars, frame,
                   pw_sender, panicked>>

\* The ScrolledWindow scrolls the view (scrollbars, or a scroll event the
\* scroll handler did not inhibit); x and y are in pixels.
Pan(x, y) ==
    /\ Input([type |-> "Pan", x |-> x, y |-> y])
    /\ hadjustment' = adjustment_set_value(hadjustment, AU * x)
    /\ vadjustment' = adjustment_set_value(vadjustment, AU * y)
    /\ UNCHANGED <<graph_vars, zoom_factor, drag_vars, pinch_vars, frame, pw_sender,
                   panicked>>

\* begin of setup_zoom_gesture; center is the gesture's bounding_box_center.
ZoomBegin(center) ==
    /\ Input([type |-> "ZoomBegin", center |-> center])
    /\ ~zoom_gesture
    /\ zoom_gesture' = TRUE
    /\ zoom_gesture_initial_zoom' = Some(zoom_factor)
    /\ zoom_gesture_anchor' = Some(center)
    /\ UNCHANGED <<graph_vars, view_vars, drag_vars, frame, pw_sender, panicked>>

\* scale_changed of setup_zoom_gesture; the scale delta is the fraction
\* delta[1] / delta[2], center the gesture's bounding_box_center now.
ScaleChanged(delta, center) ==
    /\ Input([type |-> "ScaleChanged", delta |-> delta, center |-> center])
    /\ zoom_gesture
    /\ IF zoom_gesture_initial_zoom = None
       THEN /\ panicked' = TRUE
            /\ UNCHANGED view_vars
       ELSE LET initial_zoom == zoom_gesture_initial_zoom.value
            IN  /\ (initial_zoom * delta[1]) % delta[2] = 0
                /\ Clamp((initial_zoom * delta[1]) \div delta[2], ZOOM_MIN, ZOOM_MAX)
                       \in ZoomGrid
                /\ SetView(set_zoom_factor(View,
                              (initial_zoom * delta[1]) \div delta[2], center))
                /\ UNCHANGED panicked
    /\ UNCHANGED <<graph_vars, drag_vars, pinch_vars, frame, pw_sender>>

\* The zoom gesture ends; no handler is connected to its end.
ZoomEnd ==
    /\ Input([type |-> "ZoomEnd"])
    /\ zoom_gesture
    /\ zoom_gesture' = FALSE
    /\ UNCHANGED <<graph_vars, view_vars, drag_vars, zoom_gesture_initial_zoom,
                   zoom_gesture_anchor, frame, pw_sender, panicked>>

\* The ids of the Port widgets inside the GraphView.
port_widgets == UNION { children[w].ports : w \in DOMAIN children }

\* A toggle_link that sends its command twice.
toggle_link_twice(sender, port_from, port_to) ==
    sender \o << [type |-> "ToggleLink", port_from |-> port_from, port_to |-> port_to],
                 [type |-> "ToggleLink", port_from |-> port_from, port_to |-> port_to] >>

\* Application::toggle_link: what the sender has been given afterwards.
toggle_link(sender, port_from, port_to) ==
    Append(sender, [type |-> "ToggleLink", port_from |-> port_from, port_to |-> port_to])

\* The port_toggled handler connected in Application::add_port, which calls
\* Application::toggle_link.
PortToggled(port_from, port_to) ==
    /\ Input([type |-> "PortToggled", port_from |-> port_from, port_to |-> port_to])
    /\ port_from \in port_widgets
    /\ port_to \in port_widgets
    /\ pw_sender' = toggle_link(pw_sender, port_from, port_to)
    /\ UNCHANGED <<graph_vars, view_vars, drag_vars, pinch_vars, frame, panicked>>

\* ------------------------------------------------------------------------
\* Inputs the environment supplies
\* ------------------------------------------------------------------------
Pointers == { <<300, 100>>, <<1000, 400>> }
DragStarts == { <<300, 100>> }
DragOffsets == { <<0, 0>>, <<-40, 60>>, <<12000, 0>> }
ZoomRequests == { 1, 3, 5, 20, 40, 45 }
DragZoomRequests == { 5, 20 }
ScrollDeltas == { -30, -10, 5, 7 }
PanTargets == { <<0, 0>>, <<-400, 250>>, <<5000, 5000>> }
PinchDeltas == { <<1, 2>>, <<2, 1>> }
ScrollAmounts == { -100, 50 }
ScaleDeltas == { <<1, 2>>, <<2, 1>>, <<1, 20>>, <<10, 1>> }

\* The delta events that concern nodes and their ports.
NodeMessages ==
    { msg \in PipewireMessage :
        \/ msg.type = "NodeAdded" /\ msg.node_type = "None"
        \/ msg.type = "NodeRemoved"
        \/ msg.type = "PortAdded" /\ msg.id = 10 }

\* The spec's basic graph before its link arrives: two nodes, a port each.
BasicGraph ==
    replay(EmptyGraph,
        << [type |-> "NodeAdded", id |-> 1, node_type |-> "Output"],
           [type |-> "NodeAdded", id |-> 2, node_type |-> "Input"],
           [type |-> "PortAdded", id |-> 10, node_id |-> 1],
           [type |-> "PortAdded", id |-> 20, node_id |-> 2] >>)

\* ------------------------------------------------------------------------
\* Specifications
\* ------------------------------------------------------------------------
DeltaStep == \E msg \in PipewireMessage : Receive(msg)

DragStep ==
    \/ \E target \in PickTargets, p \in DragStarts : DragBegin(target, p[1], p[2])
    \/ \E d \in DragOffsets : DragUpdate(d[1], d[2])
    \/ DragEnd

ZoomStep ==
    \/ \E zoom \in ZoomRequests : SetZoomAction(zoom)
    \/ \E delta_y \in ScrollDeltas, p \in Pointers : ScrollZoom(delta_y, p)
    \/ \E delta_y \in ScrollDeltas, amount \in ScrollAmounts : Scroll(delta_y, amount)
    \/ \E p \in PanTargets : Pan(p[1], p[2])
    \/ \E c \in Pointers : ZoomBegin(c)
    \/ \E delta \in ScaleDeltas, c \in Pointers : ScaleChanged(delta, c)
    \/ ZoomEnd

\* The delta stream alone, with layout and redraw, from the empty graph or
\* from the basic graph.
InitGraph == \E g \in {EmptyGraph, BasicGraph} : InitWith(g) /\ pending = {}

NextGraph ==
    \/ DeltaStep
    \/ SizeAllocate
    \/ Snapshot

SpecGraph == InitGraph /\ [][NextGraph]_vars

\* Node and port events interleaved with node drags, zoom requests and layout.
NextDrag ==
    \/ \E msg \in NodeMessages : Receive(msg)
    \/ DragStep
    \/ \E zoom \in DragZoomRequests : SetZoomAction(zoom)
    \/ SizeAllocate

SpecDrag == Init /\ [][NextDrag]_vars

\* Zooming and scrolling alone, with layout.
NextZoom ==
    \/ ZoomStep
    \/ SizeAllocate

SpecZoom == Init /\ [][NextZoom]_vars

\* An announced stream of the basic graph's five events (two nodes, a port
\* on each, a link between the ports) arriving in any order the protocol
\* thread can produce, with layout and redraw in between.
ArrivalEvents(type1, type2, active) ==
    { [type |-> "NodeAdded", id |-> 1, node_type |-> type1],
      [type |-> "NodeAdded", id |-> 2, node_type |-> type2],
      [type |-> "PortAdded", id |-> 10, node_id |-> 1],
      [type |-> "PortAdded", id |-> 20, node_id |-> 2],
      [type |-> "LinkAdded", id |-> 100, active |-> active,
       link |-> [node_from |-> 1, port_from |-> 10, node_to |-> 2, port_to |-> 20]] }

InitArrival ==
    \E type1 \in NodeTypes, type2 \in NodeTypes, active \in BOOLEAN :
        /\ InitWith(EmptyGraph)
        /\ pending = ArrivalEvents(type1, type2, active)

NextArrival ==
    \/ \E msg \in pending : Arrive(msg)
    \/ SizeAllocate
    \/ Snapshot

SpecArrival == InitArrival /\ [][NextArrival]_vars

\* The delta stream through the channel: the protocol thread sends, the main
\* loop dispatches one message at a time between redraws.  The
\* main loop runs the channel's source whenever a message is queued.
StreamMessages ==
    { msg \in PipewireMessage :
        \/ msg.type = "NodeAdded" /\ msg.id = 1 /\ msg.node_type = "None"
        \/ msg.type = "NodeRemoved" /\ msg.id = 1
        \/ msg.type = "PortAdded" /\ msg.id = 10 /\ msg.node_id = 1
        \/ msg.type = "PortRemoved" /\ msg.id = 10
        \/ msg.type = "LinkAdded" /\ msg.id = 100 /\ msg.active
                                 /\ msg.link.node_to = 2
        \/ msg.type = "LinkStateChanged" /\ msg.id = 100 /\ ~msg.active
        \/ msg.type = "LinkRemoved" /\ msg.id = 100 }

NextStream ==
    \/ \E msg \in StreamMessages : Send(msg)
    \/ Deliver
    \/ Snapshot

SpecStream == Init /\ [][NextStream]_vars /\ WF_vars(Deliver)

\* Port toggles interleaved with node drags, zooming and a few delta
\* events, from the basic graph.
ToggleMessages ==
    { [type |-> "NodeRemoved", id |-> 2],
      [type |-> "PortRemoved", id |-> 20, node_id |-> 2],
      [type |-> "LinkAdded", id |-> 100, active |-> TRUE,
       link |-> [node_from |-> 1, port_from |-> 10, node_to |-> 2, port_to |-> 20]] }

InitToggle == InitWith(BasicGraph) /\ pending = {}

NextToggle ==
    \/ \E msg \in ToggleMessages : Receive(msg)
    \/ \E from \in PortIds, to \in PortIds : PortToggled(from, to)
    \/ DragStep
    \/ \E zoom \in DragZoomRequests : SetZoomAction(zoom)
    \/ \E delta_y \in ScrollDeltas, p \in DragStarts : ScrollZoom(delta_y, p)
    \/ \E c \in DragStarts : ZoomBegin(c)
    \/ \E delta \in PinchDeltas, c \in DragStarts : ScaleChanged(delta, c)
    \/ ZoomEnd
    \/ SizeAllocate

SpecToggle == InitToggle /\ [][NextToggle]_vars

\* Scroll events with and without the control key, and node drags, on the
\* basic graph.
NextScroll ==
    \/ \E delta_y \in ScrollDeltas, amount \in ScrollAmounts : Scroll(delta_y, amount)
    \/ \E delta_y \in ScrollDeltas, p \in Pointers : ScrollZoom(delta_y, p)
    \/ DragStep
    \/ SizeAllocate

SpecScroll == InitToggle /\ [][NextScroll]_vars

\* Node drags on the basic graph while node 1 is announced again and
\* removed, its port goes and a link comes.
RegrabMessages ==
    { [type |-> "NodeAdded", id |-> 1, node_type |-> "None"],
      [type |-> "NodeRemoved", id |-> 1],
      [type |-> "PortRemoved", id |-> 10, node_id |-> 1],
      [type |-> "LinkAdded", id |-> 100, active |-> FALSE,
       link |-> [node_from |-> 1, port_from |-> 10, node_to |-> 2, port_to |-> 20]] }

NextRegrab ==
    \/ \E msg \in RegrabMessages : Receive(msg)
    \/ DragStep
    \/ SizeAllocate

SpecRegrab == InitToggle /\ [][NextRegrab]_vars

\* Node, port and link events on the basic graph with one kind of each
\* user input: a node drag, a zoom request, a scroll.
FrameMessages ==
    { [type |-> "NodeAdded", id |-> 1, node_type |-> "Input"],
      [type |-> "NodeRemoved", id |-> 1],
      [type |-> "PortAdded", id |-> 10, node_id |-> 2],
      [type |-> "LinkAdded", id |-> 100, active |-> FALSE,
       link |-> [node_from |-> 1, port_from |-> 10, node_to |-> 2, port_to |-> 20]] }
FrameTargets == { [kind |-> "node", node |-> <<2, 1>>] }
FrameOffsets == { <<-40, 60>> }
FrameZooms == { 20 }
FrameScrolls == { 50 }
FrameDeltas == { -10 }

NextFrame ==
    \/ \E msg \in FrameMessages : Receive(msg)
    \/ \E target \in FrameTargets \cap PickTargets, p \in DragStarts :
          DragBegin(target, p[1], p[2])
    \/ \E d \in FrameOffsets : DragUpdate(d[1], d[2])
    \/ \E zoom \in FrameZooms : SetZoomAction(zoom)
    \/ \E delta_y \in FrameDeltas, amount \in FrameScrolls : Scroll(delta_y, amount)
    \/ \E delta_y \in FrameDeltas, p \in DragStarts : ScrollZoom(delta_y, p)
    \/ SizeAllocate

SpecFrame == InitToggle /\ [][NextFrame]_vars

\* Link events on the basic graph with zoom requests and redraws.
StrokeMessages ==
    [type : {"LinkAdded"}, id : LinkIds, active : BOOLEAN,
     link : {[node_from |-> 1, port_from |-> 10, node_to |-> 2, port_to |-> 20]}]
    \cup [type : {"LinkStateChanged"}, id : LinkIds, active : BOOLEAN]
    \cup [type : {"LinkRemoved"}, id : {100}]

NextStroke ==
    \/ \E msg \in StrokeMessages : Receive(msg)
    \/ \E zoom \in DragZoomRequests : SetZoomAction(zoom)
    \/ Snapshot

SpecStroke == InitToggle /\ [][NextStroke]_vars

\* Everything.
Next ==
    \/ DeltaStep
    \/ DragStep
    \/ ZoomStep
    \/ \E from \in PortIds, to \in PortIds : PortToggled(from, to)
    \/ SizeAllocate
    \/ Snapshot

Spec == Init /\ [][Next]_vars

\* ------------------------------------------------------------------------
\* Properties of the delta stream (SpecGraph)
\* ------------------------------------------------------------------------
\* A step that applied one delta event: the event is applied' afterwards.
Applied(type) == deltas' = deltas + 1 /\ applied'.type = type

\* C1: a NodeAdded whose id is already in the node table is rejected: the
\* existing entry (widget and canvas position) is still the table's entry
\* for that id afterwards.
C1_DuplicateInsertRejected ==
    [][ \A id \in DOMAIN nodes :
          (Applied("NodeAdded") /\ applied'.id = id) => nodes'[id] = nodes[id] ]_vars

\* The net-effect reference for the set of node ids: an insert makes the id
\* present, a removal makes it absent, every other event leaves the set alone.
NetEffect(ids, msg) ==
    IF msg.type = "NodeAdded" THEN ids \cup {msg.id}
    ELSE IF msg.type = "NodeRemoved" THEN ids \ {msg.id}
    ELSE ids

\* C2: after every delta event the node table's id set is the net-effect
\* reference's set (so the two agree after every event sequence), duplicate
\* inserts and removals of absent ids included; layout and redraw leave the
\* id set alone.
C2_ModelConsistency ==
    [][ IF deltas' = deltas + 1
        THEN DOMAIN nodes' = NetEffect(DOMAIN nodes, applied')
        ELSE DOMAIN nodes' = DOMAIN nodes ]_vars

\* A duplicate insert has just been applied: both widgets created for the
\* id are children of the view.
C2_Witness ==
    /\ applied.type = "NodeAdded"
    /\ <<applied.id, 1>> \in DOMAIN children
    /\ <<applied.id, 2>> \in DOMAIN children
    /\ applied.id \in DOMAIN nodes

\* C3: a PortAdded for a node id that is not in the node table raises no
\* error and changes nothing; and a node that is added while its id is
\* absent has no ports, whatever was dropped for that id before.
C3_OrphanPortDropped ==
    [][ /\ (Applied("PortAdded") /\ applied'.node_id \notin DOMAIN nodes)
            => (graph_vars' = graph_vars /\ ~panicked')
        /\ (Applied("NodeAdded") /\ applied'.id \notin DOMAIN nodes)
            => children'[nodes'[applied'.id].node].ports = {} ]_vars

\* A port has just been dropped for a node id that is not in the table.
C3_Witness ==
    /\ applied.type = "PortAdded"
    /\ applied.node_id \notin DOMAIN nodes
    /\ deltas > 0

\* ------------------------------------------------------------------------
\* Properties of dragging and zooming (SpecDrag, SpecZoom)
\* ------------------------------------------------------------------------
\* C4: every node of the table lies within the canvas with its current
\* allocated size: -2500 <= x <= 2500 - width and -2500 <= y <= 2500 - height.
C4_NodeWithinCanvas ==
    \A id \in DOMAIN nodes :
        LET point == nodes[id].point
            widget == children[nodes[id].node]
        IN  /\ -((CANVAS_SIZE \div 2) * PU) <= point[1]
            /\ point[1] <= ((CANVAS_SIZE \div 2) - widget.width) * PU
            /\ -((CANVAS_SIZE \div 2) * PU) <= point[2]
            /\ point[2] <= ((CANVAS_SIZE \div 2) - widget.height) * PU

C6_AnchorInvariant ==
    \A zoom \in ZoomGrid, anchor \in Pointers \cup {default_anchor} :
        LET v == set_zoom_factor(View, zoom, anchor)
        IN  /\ screen_to_canvas(anchor[1], v.hadjustment.value, v.zoom_factor)
                 = screen_to_canvas(anchor[1], hadjustment.value, zoom_factor)
            /\ screen_to_canvas(anchor[2], v.vadjustment.value, v.zoom_factor)
                 = screen_to_canvas(anchor[2], vadjustment.value, zoom_factor)

\* C7: no handler panics, whatever the interleaving of delta events and
\* user input events.
C7_NoPanic == ~panicked

EndpointsResolve(g, link) ==
    /\ link.node_from \in DOMAIN g.nodes
    /\ link.port_from \in g.children[g.nodes[link.node_from].node].ports
    /\ link.node_to \in DOMAIN g.nodes
    /\ link.port_to \in g.children[g.nodes[link.node_to].node].ports

\* C9: a redraw strokes exactly the links of the table whose two endpoint
\* ports resolve at that time; a skipped link stays in the link table and
\* keeps no other link from being drawn in that frame.
C9_LinkDrawnIffResolved ==
    [][ applied'.type = "Snapshot" =>
          /\ links' = links
          /\ DOMAIN frame' \subseteq DOMAIN links'
          /\ \A id \in DOMAIN links' :
                id \in DOMAIN frame' <=> EndpointsResolve(Graph', links'[id].link) ]_vars

\* A frame has just been drawn with one link stroked and another skipped.
C9_Witness ==
    /\ applied.type = "Snapshot"
    /\ \E drawn \in DOMAIN links, skipped \in DOMAIN links :
          drawn \in DOMAIN frame /\ skipped \notin DOMAIN frame

\* The graphs the announced stream can end in from graph g with the events
\* of P still to arrive, over all the orders they can arrive in.
RECURSIVE Finals(_, _)
Finals(g, P) ==
    IF P = {} THEN {g}
    ELSE UNION { Finals(apply_message(g, msg), P \ {msg}) :
                    msg \in { m \in P : CanArrive(m, P) } }

\* What a graph model holds apart from canvas positions and widget
\* identities: the node ids, each node's ports, and the link table.
Topology(g) ==
    [ nodes |-> DOMAIN g.nodes,
      ports |-> [id \in DOMAIN g.nodes |-> g.children[g.nodes[id].node].ports],
      links |-> g.links ]

\* Two nodes are still to arrive that add_node places in the same column.
SameColumnPending(P) ==
    \E m1 \in P, m2 \in P :
        /\ m1.type = "NodeAdded"
        /\ m2.type = "NodeAdded"
        /\ m1.id # m2.id
        /\ m1.node_type = m2.node_type

\* Once the whole stream has arrived, a redraw strokes every link.
DrawnWhenComplete ==
    (pending = {} /\ applied.type = "Snapshot") => DOMAIN frame = DOMAIN links

\* C10 as stated: whatever order the link, its ports and its nodes arrive
\* in, the final graph model is the same, and the link is drawn by the first
\* redraw after the last of them has arrived.
C10_ArrivalOrderIrrelevant ==
    /\ Cardinality(Finals(Graph, pending)) = 1
    /\ DrawnWhenComplete

\* C10 amended: whatever order they arrive in, the final graph model has
\* the same node ids, ports and link table, and also the same canvas
\* positions unless the two nodes go to the same column; the link is drawn
\* by the first redraw after the last of them has arrived.
C10_ArrivalOrderTopology ==
    /\ Cardinality({ Topology(g) : g \in Finals(Graph, pending) }) = 1
    /\ SameColumnPending(pending) \/ Cardinality(Finals(Graph, pending)) = 1
    /\ DrawnWhenComplete

\* The link has arrived before either of its nodes and a redraw has
\* skipped it.
C10_Witness ==
    /\ applied.type = "Snapshot"
    /\ DOMAIN links # {}
    /\ DOMAIN nodes = {}
    /\ frame = <<>>
    /\ pending # {}

\* ------------------------------------------------------------------------
\* Properties of the channel (SpecStream)
\* ------------------------------------------------------------------------
\* A graph with the allocated sizes of its widgets set aside.
Unsized(g) ==
    [g EXCEPT !.children =
        [w \in DOMAIN g.children |-> [g.children[w] EXCEPT !.width = 0, !.height = 0]]]

\* The messages dispatched so far are the first `deltas` messages sent, the
\* rest are queued in the order sent, and the graph is what applying the
\* dispatched ones once each, in the order sent, makes of the empty graph.
StreamInOrder ==
    /\ deltas <= Len(sent)
    /\ channel = SubSeq(sent, deltas + 1, Len(sent))
    /\ Unsized(Graph) = Unsized(replay(EmptyGraph, SubSeq(sent, 1, deltas)))
    /\ ~panicked

\* C11: every delta event sent by the protocol thread is applied exactly
\* once, in the order sent, one at a time; and every event sent is
\* eventually applied, whatever the events before it were (unknown ids
\* included).
C11_DeltaStreamOrdering ==
    /\ []StreamInOrder
    /\ \A k \in 1..(MaxDeltas + 1) : (Len(sent) >= k) ~> (deltas >= k)

\* A removal of an unknown node id was applied first and the insert sent
\* behind it has been applied after it.
C11_Witness ==
    /\ deltas = 2
    /\ sent[1].type = "NodeRemoved"
    /\ sent[2].type = "NodeAdded"
    /\ DOMAIN nodes = {sent[2].id}

\* ------------------------------------------------------------------------
\* Properties of user input as a whole (SpecToggle)
\* ------------------------------------------------------------------------
\* C12: a port_toggled signal sends exactly one ToggleLink command with the
\* signal's two port ids and leaves the graph model as it is; nothing else
\* sends a command; and the node ids, the ports of each node and the link
\* table change only in a step that applies a delta event, never in a drag,
\* zoom, toggle or layout step.
C12_ToggleFireAndForget ==
    [][ /\ (inputs' = inputs + 1 /\ applied'.type = "PortToggled")
            => /\ pw_sender' = Append(pw_sender,
                                   [ type |-> "ToggleLink",
                                     port_from |-> applied'.port_from,
                                     port_to |-> applied'.port_to ])
               /\ graph_vars' = graph_vars
        /\ ~(inputs' = inputs + 1 /\ applied'.type = "PortToggled")
            => pw_sender' = pw_sender
        /\ deltas' = deltas => Topology(Graph') = Topology(Graph) ]_vars

\* A toggle between two different ports has just been handled after a node
\* was dragged to another position.
C12_Witness ==
    /\ applied.type = "PortToggled"
    /\ applied.port_from # applied.port_to
    /\ pw_sender # <<>>
    /\ \E id \in DOMAIN nodes : nodes[id].point # BasicGraph.nodes[id].point

\* The delta event names an id that is absent from graph g: a node, port
\* or link to remove that is not there, or a state change of an unknown link.
NamesAbsentId(g, msg) ==
    CASE msg.type = "NodeRemoved" -> msg.id \notin DOMAIN g.nodes
      [] msg.type = "PortRemoved" ->
            \/ msg.node_id \notin DOMAIN g.nodes
            \/ msg.id \notin g.children[g.nodes[msg.node_id].node].ports
      [] msg.type = "LinkRemoved" -> msg.id \notin DOMAIN g.links
      [] msg.type = "LinkStateChanged" -> msg.id \notin DOMAIN g.links
      [] OTHER -> FALSE

\* C13: a NodeRemoved, PortRemoved or LinkRemoved for an id that is not
\* present, and a LinkStateChanged for an unknown link, leave the node table,
\* every node's ports and the link table unchanged and raise no error; and a
\* LinkAdded stores its own active flag, whatever was dropped for its id
\* before.
C13_AbsentIdNoOp ==
    [][ deltas' = deltas + 1 =>
          /\ NamesAbsentId(Graph, applied') => (graph_vars' = graph_vars /\ ~panicked')
          /\ applied'.type = "LinkAdded" => links'[applied'.id].active = applied'.active
      ]_vars

\* A state change to inactive was sent for a link that did not exist, the
\* link was added as active after it, and it is active.
C13_Witness ==
    /\ deltas = 2
    /\ sent[1].type = "LinkStateChanged"
    /\ sent[2].type = "LinkAdded"
    /\ sent[2].id = sent[1].id
    /\ links[sent[2].id].active

\* ------------------------------------------------------------------------
\* Properties of the transforms and of clamping (SpecZoom, SpecScroll)
\* ------------------------------------------------------------------------
\* Screen coordinates (pixels) and canvas points the properties range over.
ScreenCoordinates == { 0, 100, 300, 360, 400, 640, 1000, 1279 }
CanvasTargets ==
    { <<0, 0>>, <<10000 * PU, 0>>, <<-(10000 * PU), 5000 * PU>>,
      <<2260 * PU, -(2500 * PU)>>, <<2499 * PU, 2441 * PU>> }

C15_ClampIdempotent ==
    /\ \A zoom \in 0..(ZOOM_MAX + ZU) :
          LET v1 == set_zoom_factor(View, zoom, default_anchor)
          IN  /\ set_zoom_factor(v1, v1.zoom_factor, default_anchor).zoom_factor
                   = v1.zoom_factor
              /\ Clamp(Clamp(zoom, ZOOM_MIN, ZOOM_MAX), ZOOM_MIN, ZOOM_MAX)
                   = Clamp(zoom, ZOOM_MIN, ZOOM_MAX)
    /\ \A id \in DOMAIN nodes, point \in CanvasTargets :
          LET g1 == move_node(Graph, nodes[id].node, point)
          IN  move_node(g1, nodes[id].node, g1.nodes[id].point) = g1

\* A drag has just left an allocated node at the right edge of the canvas.
C15_Witness ==
    /\ applied.type = "DragUpdate"
    /\ \E id \in DOMAIN nodes :
          /\ children[nodes[id].node].width > 0
          /\ nodes[id].point[1] =
                ((CANVAS_SIZE \div 2) - children[nodes[id].node].width) * PU

\* ------------------------------------------------------------------------
\* Properties of the zoom input handlers (SpecZoom, SpecScroll)
\* ------------------------------------------------------------------------
\* The canvas point under the screen point p is the same before and after
\* the step.
StaysUnder(p) ==
    /\ screen_to_canvas(p[1], hadjustment'.value, zoom_factor')
         = screen_to_canvas(p[1], hadjustment.value, zoom_factor)
    /\ screen_to_canvas(p[2], vadjustment'.value, zoom_factor')
         = screen_to_canvas(p[2], vadjustment.value, zoom_factor)

\* The adjustment's value lies strictly inside the range set_value clamps to.
Unclamped(adj) ==
    adj.lower < adj.value /\ adj.value < adj.upper - adj.page_size

C17_PlainScrollNotZoom ==
    [][ (inputs' = inputs + 1 /\ applied'.type = "Scroll")
        => /\ zoom_factor' = zoom_factor
           /\ ~applied'.inhibit
           /\ graph_vars' = graph_vars ]_vars

\* A plain scroll event has scrolled a view in which a node had been
\* dragged.
C17_Witness ==
    /\ applied.type = "Scroll"
    /\ ~applied.inhibit
    /\ vadjustment.value # 0
    /\ \E id \in DOMAIN nodes : nodes[id].point # BasicGraph.nodes[id].point

\* C18: during a pinch gesture every scale-changed tick with scale delta d
\* sets the zoom factor to clamp(initial zoom * d, 0.3, 4.0), the initial zoom
\* being the one recorded at the gesture's begin, and is anchored at the
\* screen point recorded at the gesture's begin: the view after the tick is
\* what set_zoom_factor makes of it with the recorded anchor.
C18_PinchUsesRecordedAnchor ==
    [][ ( /\ inputs' = inputs + 1
          /\ applied'.type = "ScaleChanged"
          /\ zoom_gesture_initial_zoom # None
          /\ zoom_gesture_anchor # None )
        => LET d == applied'.delta
               zoom == (zoom_gesture_initial_zoom.value * d[1]) \div d[2]
           IN  /\ zoom_factor' = Clamp(zoom, ZOOM_MIN, ZOOM_MAX)
               /\ View' = set_zoom_factor(View, zoom, zoom_gesture_anchor.value) ]_vars

\* ------------------------------------------------------------------------
\* Properties of the drag gesture (SpecDrag)
\* ------------------------------------------------------------------------
\* The widget a drag state holds is the one the node table has for its id.
ArmedOnTableNode(state) ==
    /\ pipewire_id(state.node) \in DOMAIN nodes
    /\ nodes[pipewire_id(state.node)].node = state.node

\* The canvas less the allocated size of a widget, on each axis.
CanvasClamp(point, widget) ==
    << Clamp(point[1], -((CANVAS_SIZE \div 2) * PU),
             ((CANVAS_SIZE \div 2) - children[widget].width) * PU),
       Clamp(point[2], -((CANVAS_SIZE \div 2) * PU),
             ((CANVAS_SIZE \div 2) - children[widget].height) * PU) >>

\* The canvas point under the gesture's start point moved by (x, y), under
\* the current zoom factor and scroll offsets.
PointerOnCanvas(start, x, y) ==
    << screen_to_canvas(start[1] + x, hadjustment.value, zoom_factor),
       screen_to_canvas(start[2] + y, vadjustment.value, zoom_factor) >>

\* Each drag-update tick (dx, dy) of a drag armed on a node of the table
\* stores, for that node and no other, the clamp of
\* screen_to_canvas(start + (dx, dy)) - offset.
DragUpdateResult ==
    [][ ( /\ inputs' = inputs + 1
          /\ applied'.type = "DragUpdate"
          /\ dragged_node # None
          /\ ArmedOnTableNode(dragged_node.value) )
        => LET state == dragged_node.value
               id == pipewire_id(state.node)
               pointer == PointerOnCanvas(drag_start.value, applied'.x, applied'.y)
           IN  /\ ~panicked'
               /\ DOMAIN nodes' = DOMAIN nodes
               /\ nodes'[id].point =
                     CanvasClamp(<< pointer[1] - state.offset[1],
                                    pointer[2] - state.offset[2] >>, state.node)
               /\ \A other \in DOMAIN nodes \ {id} : nodes'[other] = nodes[other]
               /\ links' = links /\ children' = children ]_vars

\* A drag that has just been armed on an in-bounds node of the table: the
\* tick with zero delta, zoom and scroll being as at the begin, asks for the
\* position the node has.
ZeroDeltaStays ==
    [][ ( /\ inputs' = inputs + 1
          /\ applied'.type = "DragBegin"
          /\ applied'.target.kind = "node"
          /\ ArmedOnTableNode(applied'.target)
          /\ C4_NodeWithinCanvas )
        => LET id == pipewire_id(applied'.target.node)
               pointer == PointerOnCanvas(drag_start'.value, 0, 0)
           IN  /\ dragged_node' # None
               /\ dragged_node'.value.node = applied'.target.node
               /\ CanvasClamp(<< pointer[1] - dragged_node'.value.offset[1],
                                 pointer[2] - dragged_node'.value.offset[2] >>,
                              applied'.target.node) = nodes[id].point ]_vars

\* move_node to the canvas point (10000, 0) stores x = 2500 - width, y = 0.
FarTargetClamped ==
    \A id \in DOMAIN nodes :
        move_node(Graph, nodes[id].node, <<10000 * PU, 0>>).nodes[id].point
          = << ((CANVAS_SIZE \div 2) - children[nodes[id].node].width) * PU, 0 >>

\* C19: while a drag is armed on a node still in the node table, after each
\* drag-update tick with cumulative delta (dx, dy) the node's stored position
\* is the per-axis clamp to [-2500, 2500 - size] of
\* screen_to_canvas(start + (dx, dy)) - offset, under the zoom factor and
\* scroll offsets of that tick; a tick with zero delta and unchanged zoom and
\* scroll leaves an in-bounds node where it was; and a target of (10000, 0)
\* ends at x = 2500 - width.
C19_DragUpdateResult ==
    /\ DragUpdateResult
    /\ ZeroDeltaStays
    /\ []FarTargetClamped

\* A drag-update tick with a delta has moved a node of the table, in a
\* zoomed view, to a position inside the canvas bounds.
C19_Witness ==
    /\ applied.type = "DragUpdate"
    /\ applied.x # 0
    /\ zoom_factor # DEFAULT_ZOOM
    /\ dragged_node # None
    /\ ArmedOnTableNode(dragged_node.value)
    /\ LET point == nodes[pipewire_id(dragged_node.value.node)].point
       IN  /\ -((CANVAS_SIZE \div 2) * PU) < point[1]
           /\ point[1] < ((CANVAS_SIZE \div 2)
                            - children[dragged_node.value.node].width) * PU

\* C20: no DragState is held unless a drag gesture is in progress (the drag
\* state is Idle initially and Idle again once the gesture has ended, until
\* the next gesture begins), and a DragState is stored only by a drag begin
\* that hits a node.
C20_DragReturnsToIdle ==
    /\ [](drag_start = None => dragged_node = None)
    /\ [][ (dragged_node' # dragged_node /\ dragged_node' # None)
            => /\ applied'.type = "DragBegin"
               /\ applied'.target.kind = "node" ]_vars

\* A drag begin that hits a port, or no node at all, leaves no DragState.
PortHitLeavesIdle ==
    [][ ( /\ inputs' = inputs + 1
          /\ applied'.type = "DragBegin"
          /\ applied'.target.kind \in {"port", "view"} )
        => dragged_node' = None ]_vars

\* A DragState comes into being only at a drag begin that hits a node.
ArmedOnlyByNodeHit ==
    [][ (dragged_node = None /\ dragged_node' # None)
        => /\ inputs' = inputs + 1
           /\ applied'.type = "DragBegin"
           /\ applied'.target.kind = "node" ]_vars

\* A drag-update tick without a DragState changes nothing of the graph model.
IdleUpdateMovesNothing ==
    [][ ( /\ inputs' = inputs + 1
          /\ applied'.type = "DragUpdate"
          /\ dragged_node = None )
        => (graph_vars' = graph_vars /\ ~panicked') ]_vars

\* C21: a drag begin whose hit test resolves to a port, or to no node at
\* all, leaves the drag state Idle, also when an earlier gesture had armed
\* it; nothing but a drag begin on a node arms it, so it is Idle throughout
\* that gesture, and a drag-update tick in the Idle state moves no node.
C21_PortHitDoesNotArm ==
    /\ PortHitLeavesIdle
    /\ ArmedOnlyByNodeHit
    /\ IdleUpdateMovesNothing

\* A drag-update tick with a delta has been handled while a gesture is in
\* progress and no DragState is held, an allocated node with a port being
\* there to be hit.
C21_Witness ==
    /\ applied.type = "DragUpdate"
    /\ applied.x # 0
    /\ drag_start # None
    /\ dragged_node = None
    /\ \E w \in Pickable : children[w].ports # {}

\* C22: a drag gesture moves only the node hit at its own begin: after a
\* drag begin the DragState held, if any, is for the widget that begin hit
\* (none is held when the widget's id is not in the node table), and each
\* drag-update tick changes nothing of the node table but the entry of the
\* node the DragState is for.
C22_DragUsesOwnBegin ==
    /\ [][ (inputs' = inputs + 1 /\ applied'.type = "DragBegin")
            => \/ dragged_node' = None
               \/ /\ applied'.target.kind = "node"
                  /\ pipewire_id(applied'.target.node) \in DOMAIN nodes
                  /\ dragged_node'.value.node = applied'.target.node ]_vars
    /\ [][ (inputs' = inputs + 1 /\ applied'.type = "DragUpdate")
            => /\ DOMAIN nodes' = DOMAIN nodes
               /\ \A id \in DOMAIN nodes :
                     nodes'[id] # nodes[id]
                       => /\ dragged_node # None
                          /\ id = pipewire_id(dragged_node.value.node) ]_vars

\* ------------------------------------------------------------------------
\* Properties of node widgets and placement (SpecGraph, SpecDrag, SpecFrame)
\* ------------------------------------------------------------------------
\* C23: the Node widgets parented to the view are exactly the widgets the
\* node table holds, after any sequence of delta events, duplicate ids
\* included.
C23_AttachedMatchesTable ==
    DOMAIN children = { nodes[id].node : id \in DOMAIN nodes }

\* The positions of the nodes whose x is within the column tolerance of cx.
InColumn(cx) ==
    { nodes[n].point : n \in { m \in DOMAIN nodes :
                                 Abs(cx - nodes[m].point[1]) < COLUMN_TOLERANCE * PU } }

\* The largest of a non-empty set of integers.
Largest(S) == CHOOSE a \in S : \A b \in S : b <= a

\* C24: a node inserted into the column at cx is placed at y = 20 when no
\* node of the table has an x within the tolerance of cx, and otherwise at
\* 120 plus the largest y among the nodes whose x is within the tolerance.
C24_PlacementStacking ==
    \A id \in NodeIds, node_type \in NodeTypes :
        LET point == add_node(Graph, id, node_type).nodes[id].point
            column == InColumn(point[1])
        IN  point[2] = IF column = {} THEN COLUMN_TOP_Y * PU
                       ELSE Largest({ p[2] : p \in column }) + COLUMN_GAP_Y * PU

\* C25: the x a NodeAdded event stores for its node depends on the node
\* type alone: 20 for Output, 820 for Input, 420 for no type.
C25_PlacementColumn ==
    [][ Applied("NodeAdded")
        => /\ applied'.id \in DOMAIN nodes'
           /\ nodes'[applied'.id].point[1] =
                 IF applied'.node_type = "Output" THEN 20 * PU
                 ELSE IF applied'.node_type = "Input" THEN 820 * PU
                 ELSE 420 * PU ]_vars

\* An Input node has just been placed in the right column while the table
\* holds a node of another column.
C25_Witness ==
    /\ applied.type = "NodeAdded"
    /\ applied.node_type = "Input"
    /\ nodes[applied.id].point[1] = COLUMN_INPUT_X * PU
    /\ \E other \in DOMAIN nodes : nodes[other].point[1] = COLUMN_OUTPUT_X * PU

StyleFollowsFlag ==
    applied.type = "Snapshot"
        => \A l \in DOMAIN frame :
              /\ l \in DOMAIN links
              /\ links[l].active <=> frame[l].dash = <<>>

\* The flag in the link table is the one of the latest LinkAdded or
\* LinkStateChanged event for the link: such an event stores its flag for a
\* link that is in the table after it, and no other step changes the flag of
\* a link that stays in the table.
FlagIsLatest ==
    [][ \A l \in DOMAIN links' :
          IF (Applied("LinkAdded") \/ Applied("LinkStateChanged")) /\ applied'.id = l
          THEN links'[l].active = applied'.active
          ELSE l \in DOMAIN links /\ links'[l].active = links[l].active ]_vars

\* In whatever order the link table yields its entries, the frame drawn
\* from the current state is the same.
StyleOrderFree ==
    \A o1, o2 \in Orders(DOMAIN links) :
        snapshot_links(Graph, zoom_factor, o1) = snapshot_links(Graph, zoom_factor, o2)

\* C27: on every redraw each drawn link is stroked solid if its current
\* flag is true and dashed if it is false, the current flag being that of
\* the latest LinkAdded or LinkStateChanged event for the link; and a
\* link's style does not depend on the links drawn before it.
C27_StyleFollowsLatestFlag ==
    /\ []StyleFollowsFlag
    /\ FlagIsLatest
    /\ []StyleOrderFree

\* A frame has just been drawn with a solid link and a dashed link.
C27_Witness ==
    /\ applied.type = "Snapshot"
    /\ \E l1, l2 \in DOMAIN frame :
          frame[l1].dash = <<>> /\ frame[l2].dash # <<>>

\* C28: at every zoom factor the line width and the dash pattern of the
\* links of a frame are proportional to the zoom factor: each is the zoom
\* factor times what the same frame has at zoom factor 1.0.
C28_StrokeScalesWithZoom ==
    applied.type = "Snapshot"
        => \A order \in Orders(DOMAIN links) :
              LET unit == snapshot_links(Graph, DEFAULT_ZOOM, order)
              IN  \A l \in DOMAIN frame :
                     /\ frame[l].line_width * DEFAULT_ZOOM
                          = unit[l].line_width * zoom_factor
                     /\ Len(frame[l].dash) = Len(unit[l].dash)
                     /\ \A i \in 1..Len(frame[l].dash) :
                           frame[l].dash[i] * DEFAULT_ZOOM
                             = unit[l].dash[i] * zoom_factor

=============================================================================
